---- MODULE Spec2Model ----
(***************************************************************************)
(* Model of the two QC scripts of the repository:                          *)
(*   src/dirchecker.py        directory / file QC (main and its helpers)   *)
(*   src/report_validator.py  PDF header field validator                   *)
(* Strings the code inspects character by character are tuples of          *)
(* one-character strings; strings it only copies are kept atomic.          *)
(***************************************************************************)
EXTENDS Integers, Sequences, FiniteSets, TLC

VARIABLES
    \* ---- dirchecker.py: one run of main()
    pc,             \* position of main(): "start", "dirs", "files", "print", "exit", "exited"
    argv,           \* sys.argv
    fs,             \* the filesystem the run looks at
    dir_valid, missing_dirs, existing_dirs,
    missing_files, existing_files, file_issues,
    success,        \* value returned by print_results
    exit_code,      \* argument of sys.exit, NoExit before
    \* ---- one call of a pure function (get_base_prefix, validate_date, validate_ip_address)
    fn_pc, fn_arg, fn_ret,
    \* ---- report_validator.py: one call of validate_pdf
    vp_pc,          \* position in validate_pdf
    pdf,            \* the document the backend opens: its pages, their text and tables
    results,        \* the dict validate_pdf builds and returns
    page_text,      \* text = first_page.extract_text()
    all_fields_valid,
    field_i,        \* position of the loop over required_fields
    raised          \* where the exception that reached the except clause was raised

dirVars == <<pc, argv, fs, dir_valid, missing_dirs, existing_dirs,
             missing_files, existing_files, file_issues, success, exit_code>>
fnVars == <<fn_pc, fn_arg, fn_ret>>
pdfVars == <<vp_pc, pdf, results, page_text, all_fields_valid, field_i, raised>>
vars == <<dirVars, fnVars, pdfVars>>

NoExit == "none"
Idle == "idle"

(***************************************************************************)
(* Generic helpers on sequences                                            *)
(***************************************************************************)
RECURSIVE Cat(_)
Cat(ss) == IF ss = <<>> THEN <<>> ELSE Head(ss) \o Cat(Tail(ss))

Range(s) == { s[i] : i \in 1..Len(s) }

Contains(s, c) == \E i \in 1..Len(s) : s[i] = c

\* index of the first / last occurrence of c in s, 0 when there is none
FirstIndex(s, c) ==
    IF Contains(s, c) THEN CHOOSE i \in 1..Len(s) : s[i] = c /\ \A j \in 1..(i-1) : s[j] # c
    ELSE 0
LastIndex(s, c) ==
    IF Contains(s, c) THEN CHOOSE i \in 1..Len(s) : s[i] = c /\ \A j \in (i+1)..Len(s) : s[j] # c
    ELSE 0

\* the ASCII letters, for str.upper, str.lower and re.IGNORECASE
UPPER == <<"A", "B", "C", "D", "E", "F", "G", "H", "I", "J", "K", "L", "M", "N", "O", "P", "Q", "R", "S", "T", "U", "V", "W", "X", "Y", "Z">>
LOWER == <<"a", "b", "c", "d", "e", "f", "g", "h", "i", "j", "k", "l", "m", "n", "o", "p", "q", "r", "s", "t", "u", "v", "w", "x", "y", "z">>
DIGITS == <<"0", "1", "2", "3", "4", "5", "6", "7", "8", "9">>

\* str.lower()
LowerChar(c) ==
    IF \E i \in 1..Len(UPPER) : UPPER[i] = c
      THEN LOWER[CHOOSE i \in 1..Len(UPPER) : UPPER[i] = c]
      ELSE c
lower(s) == [i \in 1..Len(s) |-> LowerChar(s[i])]

IsDigit(c) == \E i \in 1..Len(DIGITS) : DIGITS[i] = c
IsLetter(c) == (\E i \in 1..Len(UPPER) : UPPER[i] = c) \/ (\E i \in 1..Len(LOWER) : LOWER[i] = c)
\* \s of the re module and the characters str.strip() removes
IsSpace(c) == c \in {" ", "\t", "\n", "\r"}
IsNewline(c) == c \in {"\n", "\r"}

\* int() of a digit and of a string of digits
DigitVal(c) == (CHOOSE i \in 1..Len(DIGITS) : DIGITS[i] = c) - 1
RECURSIVE int(_)
int(s) == IF s = <<>> THEN 0 ELSE int(SubSeq(s, 1, Len(s) - 1)) * 10 + DigitVal(s[Len(s)])

\* str.strip()
RECURSIVE lstrip(_)
lstrip(s) == IF s # <<>> /\ IsSpace(Head(s)) THEN lstrip(Tail(s)) ELSE s
RECURSIVE rstrip(_)
rstrip(s) == IF s # <<>> /\ IsSpace(s[Len(s)]) THEN rstrip(SubSeq(s, 1, Len(s) - 1)) ELSE s
strip(s) == rstrip(lstrip(s))

\* str.split(sep) for a one-character separator
RECURSIVE split(_, _)
split(s, sep) ==
    IF ~Contains(s, sep) THEN << s >>
    ELSE << SubSeq(s, 1, FirstIndex(s, sep) - 1) >>
         \o split(SubSeq(s, FirstIndex(s, sep) + 1, Len(s)), sep)

(***************************************************************************)
(* dirchecker.py                                                           *)
(***************************************************************************)
PATH_SEP == "/"

\* REQUIRED_STRUCTURE, in the dict's insertion order
REQUIRED_STRUCTURE ==
    << [main |-> "NVA",         subdirs |-> <<"NESSUS", "NMAP", "QUALYS">>],
       [main |-> "REPORTS",     subdirs |-> <<>>],
       [main |-> "REQUESTINFO", subdirs |-> <<>>] >>

\* os.path.basename: what follows the last separator
basename(path) == SubSeq(path, LastIndex(path, PATH_SEP) + 1, Len(path))

split_at_last(name) == SubSeq(name, 1, LastIndex(name, "-") - 1)

\* str.split('-')[0]: what precedes the first hyphen
split_first(name) == SubSeq(name, 1, FirstIndex(name, "-") - 1)

get_base_prefix(base_path) ==
    LET base_name == basename(base_path)
    IN  IF Contains(base_name, "-") THEN split_first(base_name) ELSE base_name

\* A path below the base directory: the base directory string, then the components.
PathOf(base, rel) == <<base>> \o rel

\* Path.exists(): a path below the base exists only when the base is a directory,
\* the path is present and so is every ancestor.
Exists(f, rel) ==
    /\ f.base = "dir"
    /\ \A n \in 1..Len(rel) : SubSeq(rel, 1, n) \in f.dirs

\* ---- check_directory_structure
RECURSIVE check_subdirs(_, _, _, _, _)
check_subdirs(f, base, main, subdirs, acc) ==
    IF subdirs = <<>> THEN acc
    ELSE LET rel == <<main, Head(subdirs)>>
             nxt == IF ~Exists(f, rel)
                      THEN [acc EXCEPT !.missing = Append(@, PathOf(base, rel))]
                      ELSE [acc EXCEPT !.existing = Append(@, PathOf(base, rel))]
         IN  check_subdirs(f, base, main, Tail(subdirs), nxt)

RECURSIVE check_main_dirs(_, _, _, _)
check_main_dirs(f, base, structure, acc) ==
    IF structure = <<>> THEN acc
    ELSE LET e   == Head(structure)
             rel == <<e.main>>
             nxt == IF ~Exists(f, rel)
                      THEN [acc EXCEPT !.missing = Append(@, PathOf(base, rel))]
                      ELSE check_subdirs(f, base, e.main, e.subdirs,
                                         [acc EXCEPT !.existing = Append(@, PathOf(base, rel))])
         IN  check_main_dirs(f, base, Tail(structure), nxt)

check_directory_structure_no_failfast(f, base) ==
    LET r == check_main_dirs(f, base, REQUIRED_STRUCTURE,
                             [missing |-> <<>>, existing |-> << PathOf(base, <<>>) >>])
    IN  [valid |-> Len(r.missing) = 0, missing |-> r.missing, existing |-> r.existing]

check_directory_structure(f, base) ==
    IF f.base = "absent"
      THEN [valid |-> FALSE, missing |-> << PathOf(base, <<>>) >>, existing |-> <<>>]
    ELSE IF f.base # "dir"
      THEN [valid |-> FALSE, missing |-> << <<base, " (not a directory)">> >>, existing |-> <<>>]
    ELSE LET r == check_main_dirs(f, base, REQUIRED_STRUCTURE,
                                  [missing |-> <<>>, existing |-> << PathOf(base, <<>>) >>])
         IN  [valid |-> Len(r.missing) = 0, missing |-> r.missing, existing |-> r.existing]

\* ---- file checks
KB == 1024
MIN_KB == 25

NMAP_SUFFIXES == <<"_TCP.gnmap", "_TCP.nmap", "_TCP.xml", "_UDP.gnmap", "_UDP.nmap", "_UDP.xml">>
NESSUS_EXT == ".nessus"
ASP_SUFFIX == "-Attack Surface Profile.xlsx"

\* One line of a file list: the folder, the file name, the annotation of the
\* f-string and the number it formats (0 when it formats none).
Desc(dir, name, note, num) == [dir |-> dir, name |-> name, note |-> note, num |-> num]

NESSUS_GLOB == <<"*", NESSUS_EXT>>

\* f"{base_prefix}{suffix}"
FileName(prefix, suffix) == prefix \o <<suffix>>

required_nmap_files_whole_name(base) ==
    [i \in 1..Len(NMAP_SUFFIXES) |-> FileName(basename(base), NMAP_SUFFIXES[i])]

required_nmap_files(base) ==
    [i \in 1..Len(NMAP_SUFFIXES) |-> FileName(get_base_prefix(base), NMAP_SUFFIXES[i])]

attack_surface_file(base) == FileName(get_base_prefix(base), ASP_SUFFIX)

\* nessus_path.glob('*.nessus'): the names of the folder that end in .nessus
glob_nessus(f) == { n \in f.nessus : Len(n) >= 1 /\ n[Len(n)] = NESSUS_EXT }

\* file_size / 1024 > n, on the exact quotient
size_kb_at_least(file_size, n) == file_size \div KB >= n

size_kb_greater(file_size, n) ==
    \/ file_size \div KB > n
    \/ file_size \div KB = n /\ file_size % KB > 0

\* f"{file_size_kb:.1f}": tenths of a KB, rounded half to even
size_kb_tenths(file_size) ==
    LET q == (file_size * 10) \div KB
        r == (file_size * 10) % KB
    IN  IF r * 2 > KB \/ (r * 2 = KB /\ q % 2 = 1) THEN q + 1 ELSE q

\* the file of REQUESTINFO with this name, as a set (empty when there is none)
ReqFiles(f, name) == { x \in f.reqinfo : x.name = name }

Empty3 == [missing |-> <<>>, existing |-> <<>>, issues |-> <<>>]

\* the NESSUS block of check_sb_files
check_nessus(f, acc) ==
    IF Exists(f, <<"NVA", "NESSUS">>)
      THEN IF glob_nessus(f) # {}
             THEN [acc EXCEPT !.existing =
                      Append(@, Desc(<<"NVA", "NESSUS">>, NESSUS_GLOB, "file(s) found", Cardinality(glob_nessus(f))))]
             ELSE [acc EXCEPT !.missing = Append(@, Desc(<<"NVA", "NESSUS">>, NESSUS_GLOB, "", 0))]
      ELSE acc

\* the NMAP block of check_sb_files: the loop over required_nmap_files
RECURSIVE check_nmap_loop(_, _, _)
check_nmap_loop(f, names, acc) ==
    IF names = <<>> THEN acc
    ELSE LET file_name == Head(names)
             nxt == IF file_name \in f.nmap
                      THEN [acc EXCEPT !.existing = Append(@, Desc(<<"NVA", "NMAP">>, file_name, "", 0))]
                      ELSE [acc EXCEPT !.missing = Append(@, Desc(<<"NVA", "NMAP">>, file_name, "", 0))]
         IN  check_nmap_loop(f, Tail(names), nxt)

check_nmap(f, base, acc) ==
    IF Exists(f, <<"NVA", "NMAP">>)
      THEN check_nmap_loop(f, required_nmap_files(base), acc)
      ELSE acc

\* the REQUESTINFO block, the same in check_sb_files and check_other_files
check_attack_surface(f, base, acc) ==
    IF Exists(f, <<"REQUESTINFO">>)
      THEN LET name == attack_surface_file(base)
           IN  IF ReqFiles(f, name) # {}
                 THEN LET file_size == (CHOOSE x \in ReqFiles(f, name) : TRUE).size
                      IN  IF size_kb_greater(file_size, MIN_KB)
                            THEN [acc EXCEPT !.existing =
                                     Append(@, Desc(<<"REQUESTINFO">>, name, "KB", size_kb_tenths(file_size)))]
                            ELSE [acc EXCEPT !.issues =
                                     Append(@, Desc(<<"REQUESTINFO">>, name, "File too small",
                                                    size_kb_tenths(file_size)))]
                 ELSE [acc EXCEPT !.missing = Append(@, Desc(<<"REQUESTINFO">>, name, "", 0))]
      ELSE acc

check_sb_files(f, base) ==
    check_attack_surface(f, base, check_nmap(f, base, check_nessus(f, Empty3)))

check_other_files(f, base) == check_attack_surface(f, base, Empty3)

\* ---- print_results: the value it returns (what it prints is not modelled)
print_results_dirs_only(dv, mdirs, mfiles, issues) == dv /\ Len(mfiles) = 0

print_results_files_only(dv, mdirs, mfiles, issues) ==
    Len(mfiles) = 0 /\ Len(issues) = 0

print_results(dv, mdirs, mfiles, issues) ==
    LET files_valid == Len(mfiles) = 0 /\ Len(issues) = 0
        all_valid   == dv /\ files_valid
    IN  all_valid

\* str.upper()
UpperChar(c) ==
    IF \E i \in 1..Len(LOWER) : LOWER[i] = c
      THEN UPPER[CHOOSE i \in 1..Len(LOWER) : LOWER[i] = c]
      ELSE c
upper(s) == [i \in 1..Len(s) |-> UpperChar(s[i])]

SB == <<"S", "B">>
OTHER_TYPE == <<"O", "T", "H", "E", "R">>

(***************************************************************************)
(* The inputs of a run of dirchecker.py                                    *)
(***************************************************************************)
\* base directory arguments: a name without hyphen, and a name with several
\* hyphens below a parent folder whose own name has one
BaseDirs == { <<"A">>, <<"d", "-", "/", "A", "-", "B", "-", "C">> }

\* test type arguments; a run without one uses 'OTHER'
TestTypes == { SB, <<"s", "b">>, <<"w", "e", "b">> }

\* sizes of the Attack Surface Profile file, around the 25 KB threshold
Sizes == { 0, MIN_KB * KB - 1, MIN_KB * KB, MIN_KB * KB + 1 }

Script == <<"dirchecker.py">>

Argvs == { <<Script>> }
         \cup { <<Script, b>> : b \in BaseDirs }
         \cup { <<Script, b, t>> : b \in BaseDirs, t \in TestTypes }
         \cup { <<Script, b, SB, SB>> : b \in BaseDirs }

ChildDirs == { <<"NVA", "NESSUS">>, <<"NVA", "NMAP">>, <<"NVA", "QUALYS">> }
TopDirs == { <<"NVA">>, <<"REPORTS">>, <<"REQUESTINFO">> }

\* the sets of folders a base directory can hold: a child needs its parent
DirSets == { t \cup c : t \in SUBSET TopDirs, c \in SUBSET ChildDirs }
DirSetsOk == { d \in DirSets : (d \cap ChildDirs # {}) => <<"NVA">> \in d }

\* the files NVA/NMAP can hold: the six scan outputs named after the prefix
NmapFolderFiles(base) ==
    { FileName(get_base_prefix(base), NMAP_SUFFIXES[i]) : i \in 1..Len(NMAP_SUFFIXES) }

NessusFolderFiles == { <<"a", NESSUS_EXT>>, <<"b", ".txt">> }

\* what REQUESTINFO can hold: nothing, a file named after the whole folder name
\* instead of the prefix, or the Attack Surface Profile file in one of the sizes
ReqInfoSets(base) ==
    { {} }
    \cup { { [name |-> FileName(basename(base), ASP_SUFFIX), size |-> MIN_KB * KB + 1] } }
    \cup { { [name |-> attack_surface_file(base), size |-> s] } : s \in Sizes }

FileSystems(base) ==
    { [base |-> "absent", dirs |-> {}, nessus |-> {}, nmap |-> {}, reqinfo |-> {}],
      [base |-> "file",   dirs |-> {}, nessus |-> {}, nmap |-> {}, reqinfo |-> {}] }
    \cup
    { [base |-> "dir", dirs |-> d, nessus |-> ne, nmap |-> nm, reqinfo |-> rq] :
        d \in DirSetsOk,
        ne \in SUBSET NessusFolderFiles,
        nm \in SUBSET NmapFolderFiles(base),
        rq \in ReqInfoSets(base) }

\* a folder that does not exist holds no file
FsOk(f) ==
    /\ (<<"NVA", "NESSUS">> \notin f.dirs => f.nessus = {})
    /\ (<<"NVA", "NMAP">> \notin f.dirs => f.nmap = {})
    /\ (<<"REQUESTINFO">> \notin f.dirs => f.reqinfo = {})

PdfIdle ==
    /\ vp_pc = Idle /\ pdf = <<>> /\ results = <<>> /\ page_text = <<>>
    /\ all_fields_valid = FALSE /\ field_i = 0 /\ raised = "none"

FnIdle == fn_pc = Idle /\ fn_arg = <<>> /\ fn_ret = <<>>

Init ==
    /\ pc = "start"
    /\ argv \in Argvs
    /\ fs \in IF Len(argv) \in 2..3
                THEN { f \in FileSystems(argv[2]) : FsOk(f) }
                ELSE { f \in FileSystems(<<"A">>) : f.base # "dir" }
    /\ dir_valid = FALSE
    /\ missing_dirs = <<>> /\ existing_dirs = <<>>
    /\ missing_files = <<>> /\ existing_files = <<>> /\ file_issues = <<>>
    /\ success = FALSE
    /\ exit_code = NoExit
    /\ FnIdle /\ PdfIdle

base_directory == argv[2]
test_type == IF Len(argv) = 3 THEN argv[3] ELSE OTHER_TYPE

\* main, lines 294-302: wrong argument count, usage text and sys.exit(1)
Usage ==
    /\ pc = "start"
    /\ (Len(argv) < 2 \/ Len(argv) > 3)
    /\ exit_code' = 1
    /\ pc' = "exited"
    /\ UNCHANGED <<argv, fs, dir_valid, missing_dirs, existing_dirs,
                   missing_files, existing_files, file_issues, success, fnVars, pdfVars>>

\* main, lines 304-308: the arguments are read
ReadArgs ==
    /\ pc = "start"
    /\ ~(Len(argv) < 2 \/ Len(argv) > 3)
    /\ pc' = "dirs"
    /\ UNCHANGED <<argv, fs, dir_valid, missing_dirs, existing_dirs,
                   missing_files, existing_files, file_issues, success, exit_code, fnVars, pdfVars>>

\* main, line 311
CheckDirectoryStructure ==
    /\ pc = "dirs"
    /\ LET r == check_directory_structure(fs, base_directory)
       IN  /\ dir_valid' = r.valid
           /\ missing_dirs' = r.missing
           /\ existing_dirs' = r.existing
    /\ pc' = "files"
    /\ UNCHANGED <<argv, fs, missing_files, existing_files, file_issues,
                   success, exit_code, fnVars, pdfVars>>

\* main, lines 314-317
CheckFiles ==
    /\ pc = "files"
    /\ LET r == IF upper(test_type) = SB
                  THEN check_sb_files(fs, base_directory)
                  ELSE check_other_files(fs, base_directory)
       IN  /\ missing_files' = r.missing
           /\ existing_files' = r.existing
           /\ file_issues' = r.issues
    /\ pc' = "print"
    /\ UNCHANGED <<argv, fs, dir_valid, missing_dirs, existing_dirs,
                   success, exit_code, fnVars, pdfVars>>

\* main, lines 320-321
PrintResults ==
    /\ pc = "print"
    /\ success' = print_results(dir_valid, missing_dirs, missing_files, file_issues)
    /\ pc' = "exit"
    /\ UNCHANGED <<argv, fs, dir_valid, missing_dirs, existing_dirs,
                   missing_files, existing_files, file_issues, exit_code, fnVars, pdfVars>>

\* main, line 324
Exit ==
    /\ pc = "exit"
    /\ exit_code' = IF success THEN 0 ELSE 1
    /\ pc' = "exited"
    /\ UNCHANGED <<argv, fs, dir_valid, missing_dirs, existing_dirs,
                   missing_files, existing_files, file_issues, success, fnVars, pdfVars>>

DirNext == Usage \/ ReadArgs \/ CheckDirectoryStructure \/ CheckFiles \/ PrintResults \/ Exit

Next == DirNext

Spec == Init /\ [][Next]_vars

(***************************************************************************)
(* Properties of a run of dirchecker.py                                    *)
(***************************************************************************)
RanQC == Len(argv) \in 2..3

\* C1: a run of the QC with a valid argument count exits with 0 exactly when the
\* missing-directory, missing-file and file-issue lists are all empty, and with
\* 1 in every other case.
C1_ExitZeroIffListsEmpty ==
    (pc = "exited" /\ RanQC) =>
        /\ exit_code \in {0, 1}
        /\ (exit_code = 0) <=>
              (missing_dirs = <<>> /\ missing_files = <<>> /\ file_issues = <<>>)

C1_Witness ==
    /\ pc = "exited" /\ RanQC
    /\ exit_code = 1
    /\ missing_dirs = <<>> /\ missing_files = <<>> /\ file_issues # <<>>

\* the Attack Surface Profile file of the run's base directory, as a set
AspFile == { x \in fs.reqinfo : x.name = FileName(get_base_prefix(base_directory), ASP_SUFFIX) }

\* every required folder, a .nessus file and an Attack Surface Profile above 25 KB
SbTreeButNmap ==
    /\ RanQC
    /\ upper(test_type) = SB
    /\ fs.base = "dir"
    /\ fs.dirs = TopDirs \cup ChildDirs
    /\ \E n \in fs.nessus : n[Len(n)] = ".nessus"
    /\ \E x \in AspFile : x.size > 25600

SixNmapFiles ==
    { FileName(get_base_prefix(base_directory), sfx) :
        sfx \in {"_TCP.gnmap", "_TCP.nmap", "_TCP.xml", "_UDP.gnmap", "_UDP.nmap", "_UDP.xml"} }

\* C2: a fully populated SB tree passes with exit code 0, and with exactly one
\* of the six NMAP files removed the run exits with 1 and the missing-files list
\* holds that file name and nothing else.
C2_FullSbTreePassesOneNmapMissingFails ==
    (pc = "exited" /\ SbTreeButNmap) =>
        /\ (fs.nmap = SixNmapFiles => exit_code = 0 /\ missing_files = <<>>)
        /\ \A n \in SixNmapFiles :
              fs.nmap = SixNmapFiles \ {n} =>
                  /\ exit_code = 1
                  /\ Len(missing_files) = 1
                  /\ missing_files[1].dir = <<"NVA", "NMAP">>
                  /\ missing_files[1].name = n

C2_Witness ==
    /\ pc = "exited" /\ SbTreeButNmap
    /\ Contains(basename(base_directory), "-")
    /\ Cardinality(fs.nmap) = 5
    /\ exit_code = 1

\* the lines of a file list that name the Attack Surface Profile file
AspIn(list) ==
    \E i \in 1..Len(list) :
        /\ list[i].dir = <<"REQUESTINFO">>
        /\ list[i].name = FileName(get_base_prefix(base_directory), ASP_SUFFIX)

FilesChecked == RanQC /\ pc \in {"print", "exit", "exited"}

\* C3: for both test types, an Attack Surface Profile file of more than 25600
\* bytes is recorded only as existing, one of 25600 bytes or less only as a file
\* issue, and it is recorded as missing only when it does not exist.
C3_SizeBoundary ==
    FilesChecked =>
        /\ \A x \in AspFile :
              /\ x.size > 25600 =>
                    AspIn(existing_files) /\ ~AspIn(file_issues) /\ ~AspIn(missing_files)
              /\ x.size <= 25600 =>
                    AspIn(file_issues) /\ ~AspIn(existing_files) /\ ~AspIn(missing_files)
        /\ AspIn(missing_files) => AspFile = {}

C3_Witness ==
    /\ FilesChecked
    /\ upper(test_type) # SB
    /\ \E x \in AspFile : x.size = 25600
    /\ AspIn(file_issues)

\* C4: when the base directory does not exist, check_directory_structure returns
\* invalid with the base path as the only missing directory and no existing
\* directory, whatever the test type, and the run exits with 1.
C4_MissingBase ==
    (RanQC /\ fs.base = "absent") =>
        /\ pc \in {"files", "print", "exit", "exited"} =>
              /\ dir_valid = FALSE
              /\ missing_dirs = << <<base_directory>> >>
              /\ existing_dirs = <<>>
        /\ pc = "exited" => exit_code = 1

C4_Witness ==
    /\ RanQC /\ fs.base = "absent"
    /\ upper(test_type) = SB
    /\ pc = "exited"
    /\ exit_code = 1
    /\ Len(missing_dirs) = 1

\* a run with test type SB whose file checks are done
SbFilesChecked == FilesChecked /\ upper(test_type) = SB

\* the lines of a file list that name a file of this folder
LinesOfFolder(list, dir) == { i \in 1..Len(list) : list[i].dir = dir }

\* the folders whose files check_sb_files looks at
FileFolders == { <<"NVA", "NESSUS">>, <<"NVA", "NMAP">>, <<"REQUESTINFO">> }

\* C11: in a run with test type SB, a folder that does not exist has none of its
\* files recorded as missing, and the children of a missing NVA are not recorded
\* either; all the same, a run that exits with code 0 had a base directory with
\* NVA, NVA/NESSUS, NVA/NMAP, NVA/QUALYS, REPORTS and REQUESTINFO in it, at
\* least one .nessus file in NVA/NESSUS, all six required NMAP files, and the
\* Attack Surface Profile file with a size above 25600 bytes.  A file is an
\* entry of the folder under that name, which is what Path.exists and glob see.
C11_PassIsSound ==
    SbFilesChecked =>
        /\ \A d \in FileFolders :
              d \notin fs.dirs => LinesOfFolder(missing_files, d) = {}
        /\ <<"NVA">> \notin fs.dirs =>
              \A i \in 1..Len(missing_dirs) : Len(missing_dirs[i]) <= 2
        /\ (pc = "exited" /\ exit_code = 0) =>
              /\ fs.base = "dir"
              /\ \A d \in { <<"NVA">>, <<"NVA", "NESSUS">>, <<"NVA", "NMAP">>,
                             <<"NVA", "QUALYS">>, <<"REPORTS">>, <<"REQUESTINFO">> } :
                    d \in fs.dirs
              /\ \E n \in fs.nessus : n[Len(n)] = ".nessus"
              /\ SixNmapFiles \subseteq fs.nmap
              /\ \E x \in AspFile : x.size > 25600

C11_Witness ==
    /\ SbFilesChecked
    /\ pc = "exited"
    /\ exit_code = 0
    /\ Contains(basename(base_directory), "-")
    /\ test_type # SB

(***************************************************************************)
(* get_base_prefix on its own, over every short path string                *)
(***************************************************************************)
MaxNameLen == 4

NameChars == {"a", "b", "-", "/"}

RECURSIVE SeqsUpTo(_, _)
SeqsUpTo(S, n) ==
    IF n = 0 THEN { <<>> }
    ELSE LET shorter == SeqsUpTo(S, n - 1)
         IN  shorter \cup { Append(s, c) : s \in { t \in shorter : Len(t) = n - 1 }, c \in S }

DirIdle ==
    /\ pc = Idle /\ argv = <<>>
    /\ fs = [base |-> "absent", dirs |-> {}, nessus |-> {}, nmap |-> {}, reqinfo |-> {}]
    /\ dir_valid = FALSE
    /\ missing_dirs = <<>> /\ existing_dirs = <<>>
    /\ missing_files = <<>> /\ existing_files = <<>> /\ file_issues = <<>>
    /\ success = FALSE
    /\ exit_code = NoExit

InitPrefix ==
    /\ DirIdle /\ PdfIdle
    /\ fn_pc = "call"
    /\ fn_arg \in SeqsUpTo(NameChars, MaxNameLen)
    /\ fn_ret = <<>>

\* a call of get_base_prefix
GetBasePrefix ==
    /\ fn_pc = "call"
    /\ fn_ret' = get_base_prefix(fn_arg)
    /\ fn_pc' = "done"
    /\ UNCHANGED <<fn_arg, dirVars, pdfVars>>

NextPrefix == GetBasePrefix

SpecPrefix == InitPrefix /\ [][NextPrefix]_vars

\* k is where the directory name of a path starts: right after its last separator
NameStartsAfter(k, path) ==
    /\ k = 0 \/ path[k] = "/"
    /\ \A j \in (k+1)..Len(path) : path[j] # "/"

NoHyphen(s) == \A i \in 1..Len(s) : s[i] # "-"

\* C5: get_base_prefix returns a name without hyphen unchanged, and for a name
\* with hyphens exactly the segment before the first one, so the result never
\* holds a hyphen.
C5_PrefixBeforeFirstHyphen ==
    fn_pc = "done" =>
        \A k \in 0..Len(fn_arg) :
            NameStartsAfter(k, fn_arg) =>
                LET n == SubSeq(fn_arg, k + 1, Len(fn_arg))
                IN  /\ NoHyphen(n) => fn_ret = n
                    /\ ~NoHyphen(n) =>
                          \E i \in 1..Len(n) :
                              /\ n[i] = "-"
                              /\ NoHyphen(SubSeq(n, 1, i - 1))
                              /\ fn_ret = SubSeq(n, 1, i - 1)
                    /\ NoHyphen(fn_ret)

C5_Witness ==
    /\ fn_pc = "done"
    /\ fn_arg = <<"a", "-", "b", "-">>
    /\ fn_ret = <<"a">>

(***************************************************************************)
(* report_validator.py: the field validators                               *)
(***************************************************************************)
\* what a validator returns: (is_valid, message); the message is kept as the
\* text of its f-string and the value the f-string quotes
Verdict(valid, text, quoted) == [valid |-> valid, text |-> text, quoted |-> quoted]

AllDigits(s) == \A i \in 1..Len(s) : IsDigit(s[i])

\* re.match of a pattern ^\d{..}SEP\d{..}SEP...$ : runs of digits, of the lengths
\* the pattern allows, between one-character separators.  The subject is
\* stripped by the caller, so $ has no trailing newline to skip.
match_digit_groups(s, sep, lens) ==
    LET parts == split(s, sep)
    IN  /\ Len(parts) = Len(lens)
        /\ \A i \in 1..Len(parts) : AllDigits(parts[i]) /\ Len(parts[i]) \in lens[i]

\* date_patterns
date_patterns ==
    << [sep |-> "/", lens |-> << 1..2, 1..2, {4} >>],
       [sep |-> "-", lens |-> << 1..2, 1..2, {4} >>],
       [sep |-> "-", lens |-> << {4}, 1..2, 1..2 >>] >>

validate_date(date_str) ==
    IF date_str = <<>> THEN Verdict(FALSE, "Date field is empty", <<>>)
    ELSE IF \E i \in 1..Len(date_patterns) :
               match_digit_groups(strip(date_str), date_patterns[i].sep, date_patterns[i].lens)
      THEN Verdict(TRUE, "Valid date format", <<>>)
    ELSE Verdict(FALSE, "Invalid date format", date_str)

\* ip_pattern
ip_pattern == [sep |-> ".", lens |-> << 1..3, 1..3, 1..3, 1..3 >>]

validate_ip_address(ip_str) ==
    IF ip_str = <<>> THEN Verdict(FALSE, "IP Address field is empty", <<>>)
    ELSE IF match_digit_groups(strip(ip_str), ip_pattern.sep, ip_pattern.lens)
      THEN LET parts == split(strip(ip_str), ".")
           IN  IF \A i \in 1..Len(parts) : 0 <= int(parts[i]) /\ int(parts[i]) <= 255
                 THEN Verdict(TRUE, "Valid IP address", <<>>)
                 ELSE Verdict(FALSE, "IP address out of valid range", ip_str)
    ELSE Verdict(FALSE, "Invalid IP address format", ip_str)

validate_report_status(status_str, expected) ==
    IF status_str = <<>> THEN Verdict(FALSE, "Report Status field is empty", <<>>)
    ELSE IF lower(strip(status_str)) = lower(expected)
      THEN Verdict(TRUE, "Report status matches expected value", expected)
    ELSE Verdict(FALSE, "Report status mismatch", status_str)

validate_text_field(text_str, field_name) ==
    IF text_str = <<>> \/ Len(strip(text_str)) < 2
      THEN Verdict(FALSE, "field is empty or too short", field_name)
      ELSE Verdict(TRUE, "field contains valid text", field_name)

(***************************************************************************)
(* validate_date on its own                                                *)
(***************************************************************************)
DateParts == { <<"0", "2">>, <<"2">>, <<"1", "3">>, <<"1", "4">>, <<"2", "9">>, <<"3", "0">>, <<"2", "0", "2", "5">>, <<"2", "0", "2", "4">> }
DateSeps == { <<"/">>, <<"-">> }
Pads == { <<>>, <<" ">> }

DateInputs ==
    { Cat(<<l, a, s1, b, s2, c, r>>) :
        l \in Pads, a \in DateParts, s1 \in DateSeps, b \in DateParts,
        s2 \in DateSeps, c \in DateParts, r \in Pads }
    \cup { <<>>, <<" ">>, <<"n", "/", "a">> }

InitDate ==
    /\ DirIdle /\ PdfIdle
    /\ fn_pc = "call"
    /\ fn_arg \in DateInputs
    /\ fn_ret = <<>>

\* a call of validate_date
ValidateDate ==
    /\ fn_pc = "call"
    /\ fn_ret' = validate_date(fn_arg)
    /\ fn_pc' = "done"
    /\ UNCHANGED <<fn_arg, dirVars, pdfVars>>

NextDate == ValidateDate

SpecDate == InitDate /\ [][NextDate]_vars

\* the calendar: days of a month of a year
DaysInMonth(m, y) ==
    IF m \in {4, 6, 9, 11} THEN 30
    ELSE IF m = 2
      THEN (IF y % 4 = 0 /\ (y % 100 # 0 \/ y % 400 = 0) THEN 29 ELSE 28)
    ELSE 31

IsCalendarDate(m, d, y) == y >= 1 /\ m \in 1..12 /\ d \in 1..DaysInMonth(m, y)

\* s is month, day, year (yearFirst = FALSE) or year, month, day (yearFirst = TRUE)
\* written with the separator sep, and names a day of the calendar
IsDateIn(s, sep, yearFirst) ==
    \E i \in 1..Len(s), j \in 1..Len(s) :
        /\ i < j /\ s[i] = sep /\ s[j] = sep
        /\ LET p1 == SubSeq(s, 1, i - 1)
               p2 == SubSeq(s, i + 1, j - 1)
               p3 == SubSeq(s, j + 1, Len(s))
               yy == IF yearFirst THEN p1 ELSE p3
               mm == IF yearFirst THEN p2 ELSE p1
               dd == IF yearFirst THEN p3 ELSE p2
           IN  /\ AllDigits(p1) /\ AllDigits(p2) /\ AllDigits(p3)
               /\ Len(yy) = 4 /\ Len(mm) \in 1..2 /\ Len(dd) \in 1..2
               /\ IsCalendarDate(int(mm), int(dd), int(yy))

IsRealDate(s) ==
    \/ IsDateIn(s, "/", FALSE) \/ IsDateIn(s, "-", FALSE)
    \/ IsDateIn(s, "-", TRUE)  \/ IsDateIn(s, "/", TRUE)

\* C6: validate_date reports a value valid exactly when the trimmed value is a
\* real calendar date in MM/DD/YYYY, MM-DD-YYYY, YYYY-MM-DD or YYYY/MM/DD
\* (02/30/2025 is invalid, 2025-02-14 is valid).
C6_ValidIffRealCalendarDate ==
    fn_pc = "done" => (fn_ret.valid <=> IsRealDate(strip(fn_arg)))

(***************************************************************************)
(* validate_ip_address on its own                                          *)
(***************************************************************************)
MaxIpTokens == 3

\* pieces a captured IP Address value is made of
IpTokens == { <<"1", "0", ".", "0", ".", "0", ".", "1">>,
              <<"1", "0", ".", "0", ".", "0", ".", "9", "9", "9">>,
              <<"1", "9", "2", ".", "1", "6", "8", ".", "1", ".", "2", "5", "5">>,
              <<" ", "a", "n", "d", " ">>,
              <<" ">>,
              <<"1", ".", "2", ".", "3">>,
              <<"x">> }

RECURSIVE TokenStrings(_)
TokenStrings(n) ==
    IF n = 0 THEN { <<>> }
    ELSE LET shorter == TokenStrings(n - 1)
         IN  shorter \cup { s \o t : s \in shorter, t \in IpTokens }

InitIp ==
    /\ DirIdle /\ PdfIdle
    /\ fn_pc = "call"
    /\ fn_arg \in TokenStrings(MaxIpTokens)
    /\ fn_ret = <<>>

\* a call of validate_ip_address
ValidateIp ==
    /\ fn_pc = "call"
    /\ fn_ret' = validate_ip_address(fn_arg)
    /\ fn_pc' = "done"
    /\ UNCHANGED <<fn_arg, dirVars, pdfVars>>

NextIp == ValidateIp

SpecIp == InitIp /\ [][NextIp]_vars

\* the number of digits at the start of s, at most three
DigitRun(s) ==
    IF Len(s) >= 3 /\ IsDigit(s[1]) /\ IsDigit(s[2]) /\ IsDigit(s[3]) THEN 3
    ELSE IF Len(s) >= 2 /\ IsDigit(s[1]) /\ IsDigit(s[2]) THEN 2
    ELSE IF Len(s) >= 1 /\ IsDigit(s[1]) THEN 1
    ELSE 0

\* the dotted quad that starts s: one to three digits, three times followed by a
\* period, then one to three digits; <<>> when s starts with none
RECURSIVE QuadAt(_, _)
QuadAt(s, groups) ==
    LET n == DigitRun(s)
    IN  IF n = 0 THEN <<>>
        ELSE IF groups = 1 THEN SubSeq(s, 1, n)
        ELSE IF Len(s) > n /\ s[n + 1] = "."
          THEN LET rest == QuadAt(SubSeq(s, n + 2, Len(s)), groups - 1)
               IN  IF rest = <<>> THEN <<>> ELSE SubSeq(s, 1, n + 1) \o rest
        ELSE <<>>

\* every dotted quad of s, scanning from the left without overlap
RECURSIVE FindQuads(_)
FindQuads(s) ==
    IF s = <<>> THEN <<>>
    ELSE LET q == QuadAt(s, 4)
         IN  IF q = <<>> THEN FindQuads(Tail(s))
             ELSE <<q>> \o FindQuads(SubSeq(s, Len(q) + 1, Len(s)))

QuadInRange(q) == \A i \in 1..4 : int(split(q, ".")[i]) \in 0..255

\* s holds q as a contiguous piece
Mentions(s, q) == \E i \in 1..(Len(s) - Len(q) + 1) : SubSeq(s, i, i + Len(q) - 1) = q

\* C7: validate_ip_address reports a value valid exactly when it holds at least
\* one dotted quad and every octet of every dotted quad is in 0..255; a value
\* with an in-range and an out-of-range address is invalid and its diagnostic
\* names the out-of-range address as out of range.
C7_ValidIffAllQuadsInRange ==
    fn_pc = "done" =>
        LET found == FindQuads(fn_arg)
            bad   == { i \in 1..Len(found) : ~QuadInRange(found[i]) }
        IN  /\ fn_ret.valid <=> (found # <<>> /\ bad = {})
            /\ bad # {} =>
                  /\ fn_ret.text = "IP address out of valid range"
                  /\ \A i \in bad : Mentions(fn_ret.quoted, found[i])

(***************************************************************************)
(* report_validator.py: extract_field_value                                *)
(***************************************************************************)
\* the character classes of the patterns
InClass(c, cls) ==
    CASE cls = "[:\\s]"      -> IsSpace(c) \/ c = ":"
      [] cls = "\\s"         -> IsSpace(c)
      [] cls = "[^\\n\\r]"   -> ~IsNewline(c)
      [] cls = "[^\\n]"      -> c # "\n"
      [] cls = "[:\\-\\s]"   -> IsSpace(c) \/ c \in {":", "-"}
      [] cls = "[A-Za-z0-9\\/\\-\\.\\s:]" ->
             IsLetter(c) \/ IsDigit(c) \/ IsSpace(c) \/ c \in {"/", "-", ".", ":"}

\* where the run of characters of a class that starts at index i ends: the
\* index of the first character from i on that is not in the class
RunEnd(text, i, cls) ==
    CHOOSE j \in i..(Len(text) + 1) :
        /\ \A k \in i..(j - 1) : InClass(text[k], cls)
        /\ j = Len(text) + 1 \/ ~InClass(text[j], cls)

\* re.escape(field_name) at index i, under re.IGNORECASE
label_at(text, i, field_name) ==
    /\ i + Len(field_name) - 1 <= Len(text)
    /\ \A k \in 1..Len(field_name) : LowerChar(text[i + k - 1]) = LowerChar(field_name[k])

\* ([^\n\r]+) after a greedy run of skippable characters lo..hi-1: backtracking
\* gives the run back one character at a time, so the group starts at the
\* largest index of lo..hi where a character other than a line break stands
group_after_run(text, lo, hi) ==
    LET starts == { g \in lo..hi : g <= Len(text) /\ InClass(text[g], "[^\\n\\r]") }
    IN  IF starts = {} THEN <<>>
        ELSE LET g == CHOOSE x \in starts : \A y \in starts : y <= x
             IN  SubSeq(text, g, RunEnd(text, g, "[^\\n\\r]") - 1)

\* group(1) of pattern n matched with the label at index i; <<>> for no match
\*   1: label \s*[:\s]+ ([^\n\r]+)
\*   2: label [^\n]* \n \s* ([^\n\r]+)
\*   3: label .*? ([A-Za-z0-9\/\-\.\s:]+)
group_at(text, i, field_name, n) ==
    LET e == i + Len(field_name)
    IN  CASE n = 1 -> group_after_run(text, e + 1, RunEnd(text, e, "[:\\s]"))
          [] n = 2 -> LET nl == RunEnd(text, e, "[^\\n]")
                      IN  IF nl > Len(text) THEN <<>>
                          ELSE group_after_run(text, nl + 1, RunEnd(text, nl + 1, "\\s"))
          [] n = 3 -> LET stop == RunEnd(text, e, "[^\\n]")
                          starts == { j \in e..stop : j <= Len(text)
                                         /\ InClass(text[j], "[A-Za-z0-9\\/\\-\\.\\s:]") }
                      IN  IF starts = {} THEN <<>>
                          ELSE LET j == CHOOSE x \in starts : \A y \in starts : x <= y
                               IN  SubSeq(text, j, RunEnd(text, j, "[A-Za-z0-9\\/\\-\\.\\s:]") - 1)

\* re.search(pattern, text, re.IGNORECASE | re.MULTILINE).group(1): the match at
\* the leftmost index where the pattern matches; <<>> when it matches nowhere
search_group(text, field_name, n) ==
    LET hits == { i \in 1..Len(text) :
                    label_at(text, i, field_name) /\ group_at(text, i, field_name, n) # <<>> }
    IN  IF hits = {} THEN <<>>
        ELSE group_at(text, CHOOSE x \in hits : \A y \in hits : x <= y, field_name, n)

\* re.sub(r'\s+', ' ', value): every run of blanks becomes one space.  The
\* characters kept are those that are no blank or that start a run of blanks.
normalize_whitespace(v) ==
    LET kept == { i \in 1..Len(v) : ~IsSpace(v[i]) \/ i = 1 \/ ~IsSpace(v[i - 1]) }
        nth(n) == CHOOSE i \in kept : Cardinality({ j \in kept : j <= i }) = n
    IN  [n \in 1..Cardinality(kept) |-> IF IsSpace(v[nth(n)]) THEN " " ELSE v[nth(n)]]

\* lines 36-39: strip, drop leading colons, dashes and blanks, normalize blanks
\* (each intermediate value is bound once, as the assignments to value do)
clean_value(group) ==
    CHOOSE value \in
        { normalize_whitespace(cut) :
            cut \in { SubSeq(stripped, RunEnd(stripped, 1, "[:\\-\\s]"), Len(stripped)) :
                        stripped \in { strip(group) } } } : TRUE

\* lines 33-43: the patterns in order; the first whose cleaned group has more
\* than one character gives the value, and "" is returned when none does
RECURSIVE extract_from(_, _, _)
extract_from(text, field_name, n) ==
    IF n > 3 THEN <<>>
    ELSE LET matched == { search_group(text, field_name, n) } \ { <<>> }
             values  == { value \in { clean_value(g) : g \in matched } : Len(value) > 1 }
         IN  IF values # {} THEN CHOOSE value \in values : TRUE
             ELSE extract_from(text, field_name, n + 1)

extract_field_value(text, field_name) == extract_from(text, field_name, 1)

(***************************************************************************)
(* report_validator.py: validate_pdf                                       *)
(***************************************************************************)
\* self.required_fields, in the dict's insertion order
required_fields ==
    << [name |-> <<"P", "r", "e", "l", "i", "m", "i", "n", "a", "r", "y", " ", "D", "a", "t", "e">>, type |-> "date", has_expected |-> FALSE, expected_value |-> <<>>],
       [name |-> <<"R", "e", "p", "o", "r", "t", " ", "I", "s", "s", "u", "e", "d", " ", "D", "a", "t", "e">>, type |-> "date", has_expected |-> FALSE, expected_value |-> <<>>],
       [name |-> <<"R", "e", "p", "o", "r", "t", " ", "S", "t", "a", "t", "u", "s">>, type |-> "text", has_expected |-> TRUE, expected_value |-> <<"P", "r", "e", "l", "i", "m", "i", "n", "a", "r", "y", " ", "R", "e", "p", "o", "r", "t">>],
       [name |-> <<"V", "A", " ", "M", "a", "n", "a", "g", "e", "r">>, type |-> "text", has_expected |-> FALSE, expected_value |-> <<>>],
       [name |-> <<"I", "P", " ", "A", "d", "d", "r", "e", "s", "s">>, type |-> "ip", has_expected |-> FALSE, expected_value |-> <<>>] >>

new_results_passed(pdf_path) ==
    [file_path |-> pdf_path, validation_passed |-> TRUE,
     fields |-> <<>>, errors |-> <<>>, warnings |-> <<>>]

\* lines 109-115
new_results(pdf_path) ==
    [file_path |-> pdf_path, validation_passed |-> FALSE,
     fields |-> <<>>, errors |-> <<>>, warnings |-> <<>>]

\* one entry of results['errors']: the field it is about (<<>> for the report as
\* a whole), the text of the message and the value the message quotes
ErrorEntry(about, msg, quoted) == [about |-> about, text |-> msg, quoted |-> quoted]

\* lines 139-147: the validator of the field's type
validate_field(field_config, field_value) ==
    IF field_config.type = "date" THEN validate_date(field_value)
    ELSE IF field_config.type = "ip" THEN validate_ip_address(field_value)
    ELSE IF field_config.type = "text" /\ field_config.has_expected
      THEN validate_report_status(field_value, field_config.expected_value)
    ELSE validate_text_field(field_value, field_config.name)

\* lines 133-155: the field's result is stored, and an invalid field adds its
\* error entry; r is results, v is (is_valid, message)
store_field(r, field_config, field_value, v) ==
    [r EXCEPT
        !.fields = Append(@, [name |-> field_config.name, value |-> field_value,
                              is_valid |-> v.valid,
                              message |-> [text |-> v.text, quoted |-> v.quoted]]),
        !.errors = IF ~v.valid
                     THEN Append(@, ErrorEntry(field_config.name, v.text, v.quoted))
                     ELSE @]

PdfPath == "report.pdf"

\* ---- the documents: the lines a first page can hold for each field
LinesOf == <<
    { <<"P", "r", "e", "l", "i", "m", "i", "n", "a", "r", "y", " ", "D", "a", "t", "e", ":", " ", "0", "2", "/", "1", "4", "/", "2", "0", "2", "5", "\n">>,
      <<"P", "r", "e", "l", "i", "m", "i", "n", "a", "r", "y", " ", "D", "a", "t", "e", ":", " ", "1", "4", ".", "0", "2", ".", "2", "0", "2", "5", "\n">> },
    { <<"R", "e", "p", "o", "r", "t", " ", "I", "s", "s", "u", "e", "d", " ", "D", "a", "t", "e", ":", " ", "2", "0", "2", "5", "-", "0", "2", "-", "1", "4", "\n">>,
      <<"R", "e", "p", "o", "r", "t", " ", "I", "s", "s", "u", "e", "d", " ", "D", "a", "t", "e", "\n">> },
    { <<"R", "e", "p", "o", "r", "t", " ", "S", "t", "a", "t", "u", "s", ":", " ", "P", "r", "e", "l", "i", "m", "i", "n", "a", "r", "y", " ", "R", "e", "p", "o", "r", "t", "\n">>,
      <<"R", "e", "p", "o", "r", "t", " ", "S", "t", "a", "t", "u", "s", ":", " ", "F", "i", "n", "a", "l", " ", "R", "e", "p", "o", "r", "t", "\n">>,
      <<"R", "E", "P", "O", "R", "T", " ", "S", "T", "A", "T", "U", "S", "\n", "p", "r", "e", "l", "i", "m", "i", "n", "a", "r", "y", " ", "r", "e", "p", "o", "r", "t", "\n">> },
    { <<"V", "A", " ", "M", "a", "n", "a", "g", "e", "r", ":", " ", "J", "o", " ", "D", "o", "e", "\n">>,
      <<"V", "A", " ", "M", "a", "n", "a", "g", "e", "r", ":", " ", "J", "\n">> },
    { <<"I", "P", " ", "A", "d", "d", "r", "e", "s", "s", ":", " ", "1", "0", ".", "0", ".", "0", ".", "1", "\n">>,
      <<"I", "P", " ", "A", "d", "d", "r", "e", "s", "s", ":", " ", "1", "0", ".", "0", ".", "0", ".", "9", "9", "9", "\n">>,
      <<"I", "P", " ", "A", "d", "d", "r", "e", "s", "s", ":", " ", "1", "0", ".", "0", ".", "0", ".", "1", " ", "a", "n", "d", " ", "1", "0", ".", "0", ".", "0", ".", "9", "9", "9", "\n">> } >>

PageTexts ==
    { Cat(<<a, b, c, d, e>>) :
        a \in LinesOf[1], b \in LinesOf[2], c \in LinesOf[3], d \in LinesOf[4], e \in LinesOf[5] }

\* what page.extract_text() gives: None, the empty string or the page's text
ExtractedTexts ==
    { [is_none |-> TRUE, chars |-> <<>>], [is_none |-> FALSE, chars |-> <<>>] }
    \cup { [is_none |-> FALSE, chars |-> t] : t \in PageTexts }

\* the tables of the page: none, or one table with the row of the Report Status
PageTables ==
    { <<>>,
      << << << <<" ", "R", "e", "p", "o", "r", "t", " ", "S", "t", "a", "t", "u", "s", " ">>, <<"P", "r", "e", "l", "i", "m", "i", "n", "a", "r", "y", " ", "R", "e", "p", "o", "r", "t">> >> >> >> }

Pages == { [text |-> t, tables |-> tb] : t \in ExtractedTexts, tb \in PageTables }

Docs == { [pages |-> <<>>] } \cup { [pages |-> <<pg>>] : pg \in Pages }

InitPdf ==
    /\ DirIdle /\ FnIdle
    /\ vp_pc = "open"
    /\ pdf \in Docs
    /\ results = new_results(PdfPath)
    /\ page_text = [is_none |-> TRUE, chars |-> <<>>]
    /\ all_fields_valid = FALSE
    /\ field_i = 0
    /\ raised = "none"

\* line 118: pdfplumber.open(pdf_path) and __enter__
Open ==
    /\ vp_pc = "open"
    /\ vp_pc' = "pages"
    /\ UNCHANGED <<pdf, results, page_text, all_fields_valid, field_i, raised, dirVars, fnVars>>

\* line 120: pdf.pages[0], an IndexError when the document has no page
FirstPage ==
    /\ vp_pc = "pages"
    /\ IF Len(pdf.pages) = 0
         THEN raised' = "pages" /\ vp_pc' = "except"
         ELSE raised' = raised /\ vp_pc' = "text"
    /\ UNCHANGED <<pdf, results, page_text, all_fields_valid, field_i, dirVars, fnVars>>

\* line 121
ExtractText ==
    /\ vp_pc = "text"
    /\ page_text' = pdf.pages[1].text
    /\ vp_pc' = "check"
    /\ UNCHANGED <<pdf, results, all_fields_valid, field_i, raised, dirVars, fnVars>>

\* lines 123-128: no text, the error and the early return; else the loop starts
CheckText ==
    /\ vp_pc = "check"
    /\ IF page_text.is_none \/ page_text.chars = <<>>
         THEN /\ results' = [results EXCEPT !.errors =
                                Append(@, ErrorEntry(<<>>, "Could not extract text from PDF", <<>>))]
              /\ vp_pc' = "exit"
              /\ UNCHANGED <<all_fields_valid, field_i>>
         ELSE /\ all_fields_valid' = TRUE
              /\ field_i' = 1
              /\ vp_pc' = "field"
              /\ UNCHANGED results
    /\ UNCHANGED <<pdf, page_text, raised, dirVars, fnVars>>

\* lines 130-155: the loop body for the next required field
Field ==
    /\ vp_pc = "field"
    /\ \E field_config \in { required_fields[field_i] } :
       \E field_value \in { extract_field_value(page_text.chars, field_config.name) } :
       \E v \in { validate_field(field_config, field_value) } :
          /\ results' = store_field(results, field_config, field_value, v)
          /\ all_fields_valid' = IF ~v.valid THEN FALSE ELSE all_fields_valid
    /\ field_i' = field_i + 1
    /\ vp_pc' = IF field_i = Len(required_fields) THEN "set_passed" ELSE "field"
    /\ UNCHANGED <<pdf, page_text, raised, dirVars, fnVars>>

\* line 157
SetPassed ==
    /\ vp_pc = "set_passed"
    /\ results' = [results EXCEPT !.validation_passed = all_fields_valid]
    /\ vp_pc' = "exit"
    /\ UNCHANGED <<pdf, page_text, all_fields_valid, field_i, raised, dirVars, fnVars>>

\* the with block is left (after line 157 or by the return of line 125): the
\* backend closes the document, and validate_pdf returns results
Close ==
    /\ vp_pc = "exit"
    /\ vp_pc' = "returned"
    /\ UNCHANGED <<pdf, results, page_text, all_fields_valid, field_i, raised, dirVars, fnVars>>

\* an exception inside the try block: the backend raises while it opens the
\* file, lists the pages, extracts the text or closes the document, or the
\* processing of a field raises
Raise ==
    /\ vp_pc \in {"open", "pages", "text", "field", "exit"}
    /\ raised' = vp_pc
    /\ vp_pc' = "except"
    /\ UNCHANGED <<pdf, results, page_text, all_fields_valid, field_i, dirVars, fnVars>>

\* lines 159-162: except Exception, the error entry, return results
Except ==
    /\ vp_pc = "except"
    /\ results' = [results EXCEPT !.errors =
                      Append(@, ErrorEntry(<<>>, "Error processing PDF", <<>>))]
    /\ vp_pc' = "returned"
    /\ UNCHANGED <<pdf, page_text, all_fields_valid, field_i, raised, dirVars, fnVars>>

NextPdf ==
    Open \/ FirstPage \/ ExtractText \/ CheckText \/ Field \/ SetPassed \/ Close \/ Raise \/ Except

SpecPdf == InitPdf /\ [][NextPdf]_vars

(***************************************************************************)
(* Properties of validate_pdf                                              *)
(***************************************************************************)
\* the rows of the tables of the first page
FirstPageRows ==
    IF Len(pdf.pages) = 0 THEN {}
    ELSE UNION { { tb[r] : r \in 1..Len(tb) } : tb \in Range(pdf.pages[1].tables) }

\* C8: whenever the first page's tables hold a row whose trimmed first cell is
\* the field name and whose trimmed second cell is not empty, the value
\* extracted for the field is that second cell, whatever the page text holds.
C8_TableRowWins ==
    vp_pc # Idle =>
        \A k \in 1..Len(results.fields) :
            \A row \in FirstPageRows :
                (Len(row) >= 2 /\ strip(row[1]) = results.fields[k].name /\ strip(row[2]) # <<>>)
                    => results.fields[k].value = strip(row[2])

\* the invalid fields of the result, in field order
InvalidFields == SelectSeq(results.fields, LAMBDA f : ~f.is_valid)

AllFivePresentAndValid ==
    /\ Len(results.fields) = 5
    /\ \A k \in 1..5 : results.fields[k].name = required_fields[k].name
                        /\ results.fields[k].is_valid

\* the loop over the five fields ran to its end and no exception was caught
FieldValidationRan == Len(results.fields) = 5 /\ raised = "none"

\* C9: in every result validate_pdf returns, validation_passed is true exactly
\* when all five fields have a result and each is valid; when it is true the
\* error list is empty; and when field validation ran the error list holds
\* exactly one entry per invalid field, in field order.
C9_PassedIffAllValidAndErrorsMatch ==
    vp_pc = "returned" =>
        /\ results.validation_passed <=> AllFivePresentAndValid
        /\ results.validation_passed => results.errors = <<>>
        /\ FieldValidationRan =>
              /\ Len(results.errors) = Len(InvalidFields)
              /\ \A n \in 1..Len(InvalidFields) :
                    results.errors[n].about = InvalidFields[n].name

\* the first page was read and gave no text
NoText ==
    /\ Len(pdf.pages) >= 1
    /\ raised \in {"none", "exit"}
    /\ pdf.pages[1].text.is_none \/ pdf.pages[1].text.chars = <<>>

\* C10: when the backend raises while the file is opened or read, before,
\* between or during the per-field steps, or the first page yields no text,
\* validate_pdf returns a result with validation_passed false and at least one
\* error, also when every field processed before the failure was valid; a
\* caught exception is the last entry of the error list.
C10_FailureIsReportedNotRaised ==
    /\ raised # "none" => vp_pc \in {"except", "returned"}
    /\ (vp_pc = "returned" /\ (raised \in {"open", "pages", "text", "field"} \/ NoText)) =>
          /\ results.validation_passed = FALSE
          /\ Len(results.errors) >= 1
          /\ raised # "none" =>
                results.errors[Len(results.errors)].text = "Error processing PDF"

C10_Witness ==
    /\ vp_pc = "returned"
    /\ raised = "field"
    /\ Len(results.fields) = 4
    /\ \A k \in 1..4 : results.fields[k].is_valid
    /\ results.validation_passed = FALSE
    /\ Len(results.errors) = 1

====
